---- MODULE Spec2Model ----
(***************************************************************************)
(* A model of docbot.py: the line reader of Popen (communicate and         *)
(* _submit_buffer over the two pipes of a child process), Popen.checked,   *)
(* the BuildEnvironment / Build / BuildAndMove pipeline and the DocBot     *)
(* notification dispatcher.                                                *)
(*                                                                         *)
(* Two specifications:                                                     *)
(*   SpecPopen  one Popen.checked call, byte by byte, against a child      *)
(*              process that writes to its two output channels;            *)
(*   Spec       the DocBot handlers and the build pipeline, where each     *)
(*              Popen.checked call is one step with one of the outcomes    *)
(*              that SpecPopen shows it to have.                           *)
(***************************************************************************)
EXTENDS Integers, Sequences, FiniteSets, TLC

(***************************************************************************)
(* Bounds of the model.                                                    *)
(***************************************************************************)
MaxOut == 4       \* operations (writes, early closes) in the child's script
PipeCap == 1      \* bytes a kernel pipe holds before the writer blocks

(***************************************************************************)
(* Bytes.  NL is b"\n"; the child writes OutByte on stdout and ErrByte on  *)
(* stderr, so that the origin of every byte a sink call carries is known.  *)
(***************************************************************************)
NL == 0
OutByte == 1
ErrByte == 2

STDOUT == "stdout"
STDERR == "stderr"
Channels == {STDOUT, STDERR}
DataByte(c) == IF c = STDOUT THEN OutByte ELSE ErrByte

RetCodes == {0, 1, 2}          \* exit codes of the child
Calls == {<<"make">>, <<"git", "pull">>}    \* argument vectors

None == "None"

VARIABLES
    \* ---- the child process --------------------------------------------
    call,            \* the argument vector
    script,          \* what the child does, in program order
    ip,              \* index of the child's next operation (1-based)
    wclosed,         \* wclosed[c]: the child's end of channel c is closed
    exited,          \* the child has exited
    retcode,         \* the exit code it exits with
    pipe,            \* pipe[c]: bytes in the kernel pipe of channel c
    \* ---- the Popen object and the frame of communicate ----------------
    sink_line_call,  \* TRUE iff a sink was supplied
    rbuf,            \* rbuf[c]: bytes held by the buffered reader of c
    rlist,           \* communicate: the streams still selected on
    buffers,         \* communicate: the per-stream line buffers
    rs,              \* communicate: the result of the last select
    i,               \* communicate: the index of the for loop (0-based)
    pc,              \* where Popen.checked is
    outcome,         \* how Popen.checked ended
    \* ---- observations --------------------------------------------------
    sunk,            \* the calls made to the sink, in order
    eofSeen          \* channels on which readline has returned b""

popenVars == <<call, script, ip, wclosed, exited, retcode, pipe,
               sink_line_call, rbuf, rlist, buffers, rs, i, pc, outcome,
               sunk, eofSeen>>

VARIABLES
    \* ---- DocBot ------------------------------------------------------
    authorized,       \* self.authorized
    blacklist,        \* self.blacklist
    projects,         \* self.projects: (name, Project) in insertion order
    repobranch_map,   \* self.repobranch_map: (key, builds) in insertion order
    config_file,      \* the content of docbot_config.py when it was last read
    \* ---- the handler that is running ---------------------------------
    hpc,              \* where the event thread is
    handler,          \* the handler it runs
    builds,           \* pubsubPublish: the list it iterates over
    build_i,          \* pubsubPublish: the index of its for loop (0-based)
    build,            \* rebuild: its argument
    exc,              \* the exception that is propagating, if any
    \* ---- the BuildEnvironment and the loops of the build -------------
    tmp_dir,          \* env.tmp_dir
    tmp_dir_context,  \* env.tmp_dir_context
    sub_i,            \* __enter__: index into self.submodules (0-based)
    cmd_i,            \* _do_build: index into self.commands (0-based)
    \* ---- the world ---------------------------------------------------
    fs,               \* the directories that exist
    gitdirs,          \* the directories that hold a .git directory
    nevents,          \* events handled so far
    \* ---- observations ------------------------------------------------
    issued,           \* Popen.checked calls of the current build, in order
    sent,             \* send_message calls of the latest rebuild, in order
    rebuilds,         \* arguments of the rebuild calls of the current handler
    printed,          \* what the current handler has printed
    replied,          \* the replies of the current handler
    ended             \* how the last handler ended

botVars == <<authorized, blacklist, projects, repobranch_map, config_file,
             hpc, handler, builds, build_i, build, exc,
             tmp_dir, tmp_dir_context, sub_i, cmd_i,
             fs, gitdirs, nevents,
             issued, sent, rebuilds, printed, replied, ended>>

vars == <<popenVars, botVars>>

(***************************************************************************)
(* Python lists: 0-based indexing, del, and the IndexError they raise.     *)
(***************************************************************************)
InRange(s, k) == k >= 0 /\ k < Len(s)
PyGet(s, k) == s[k + 1]
PyDel(s, k) == SubSeq(s, 1, k) \o SubSeq(s, k + 2, Len(s))
PySet(s, k, v) == [s EXCEPT ![k + 1] = v]

Contains(buf, b) == \E k \in 1..Len(buf) : buf[k] = b
FirstIndex(buf, b) == CHOOSE k \in 1..Len(buf) :
                          buf[k] = b /\ \A j \in 1..(k - 1) : buf[j] # b

\* str.split(sep) and bytes.split(sep) for a separator of length one
RECURSIVE SplitOn(_, _)
SplitOn(buf, sep) ==
    IF ~Contains(buf, sep) THEN <<buf>>
    ELSE LET k == FirstIndex(buf, sep)
         IN  <<SubSeq(buf, 1, k - 1)>>
                 \o SplitOn(SubSeq(buf, k + 1, Len(buf)), sep)

\* buf.split(b"\n")
Split(buf) == SplitOn(buf, NL)

(***************************************************************************)
(* Text.  A str is the sequence of the pieces it is the concatenation of   *)
(* (words and white space); bytes read from a pipe are sequences of        *)
(* numbers.                                                                *)
(***************************************************************************)
Space == " "
Newline == "\n"
Whitespace == {Space, Newline}

\* " ".join(call)
RECURSIVE Join(_)
Join(words) ==
    IF Len(words) = 0 THEN <<>>
    ELSE IF Len(words) = 1 THEN <<words[1]>>
    ELSE <<words[1], Space>> \o Join(Tail(words))

\* "$ {cmd}".format(cmd=" ".join(call)).encode()
EchoLine(words) == <<"$", Space>> \o Join(words)

(***************************************************************************)
(* Popen._submit_buffer: the sink calls it makes and the buffer it returns *)
(***************************************************************************)
_submit_buffer(buf, force) ==
    IF ~Contains(buf, NL)
    THEN IF force
         THEN [calls |-> <<buf>>, ret |-> <<>>]
         ELSE [calls |-> <<>>, ret |-> buf]
    ELSE LET split == Split(buf)
         IN  [calls |-> [k \in 1..(Len(split) - 1) |-> buf],
              ret   |-> split[Len(split)]]

\* a sink call as the sink sees it (data) with the place it was made from
SinkEntry(kind, fd, data) == [kind |-> kind, fd |-> fd, data |-> data]
SinkEntries(kind, fd, calls) ==
    [k \in 1..Len(calls) |-> SinkEntry(kind, fd, calls[k])]

(***************************************************************************)
(* The child process: a sequential program of writes and closes.           *)
(***************************************************************************)
WriteOp(c, b) == [op |-> "write", ch |-> c, byte |-> b]
CloseOp(c) == [op |-> "close", ch |-> c, byte |-> NL]
Ops == {WriteOp(c, b) : c \in Channels, b \in {NL, OutByte, ErrByte}}
           \cup {CloseOp(c) : c \in Channels}

\* a script writes only its own byte or a newline on a channel, closes a
\* channel at most once and never writes to a channel it has closed
WellFormed(s) ==
    /\ \A k \in 1..Len(s) :
          s[k].op = "write" => s[k].byte \in {NL, DataByte(s[k].ch)}
    /\ \A k \in 1..Len(s) : s[k].op = "close" =>
          \A j \in (k + 1)..Len(s) : s[j].ch # s[k].ch

RECURSIVE SeqsUpTo(_, _)
SeqsUpTo(S, n) ==
    IF n = 0 THEN {<<>>}
    ELSE LET shorter == SeqsUpTo(S, n - 1)
         IN  shorter \cup {Append(s, x) : s \in shorter, x \in S}

Scripts == {s \in SeqsUpTo(Ops, MaxOut) : WellFormed(s)}

\* the bytes the script writes on channel c, in order
RECURSIVE Written(_, _)
Written(s, c) ==
    IF s = <<>> THEN <<>>
    ELSE IF Head(s).op = "write" /\ Head(s).ch = c
         THEN <<Head(s).byte>> \o Written(Tail(s), c)
         ELSE Written(Tail(s), c)

\* the complete lines of a byte sequence, each with its newline
RECURSIVE CompleteLines(_)
CompleteLines(bytes) ==
    IF ~Contains(bytes, NL) THEN <<>>
    ELSE LET k == FirstIndex(bytes, NL)
         IN  <<SubSeq(bytes, 1, k)>>
                 \o CompleteLines(SubSeq(bytes, k + 1, Len(bytes)))

\* what follows the last newline
Residual(bytes) == LET split == Split(bytes) IN split[Len(split)]

ChildWrite ==
    /\ ~exited
    /\ ip <= Len(script)
    /\ script[ip].op = "write"
    /\ LET c == script[ip].ch
       IN  IF sink_line_call
           THEN /\ Len(pipe[c]) < PipeCap
                /\ pipe' = [pipe EXCEPT ![c] = Append(@, script[ip].byte)]
           ELSE pipe' = pipe       \* not a pipe: the parent's own stream
    /\ ip' = ip + 1
    /\ UNCHANGED <<botVars, call, script, wclosed, exited, retcode, sink_line_call,
                   rbuf, rlist, buffers, rs, i, pc, outcome, sunk, eofSeen>>

ChildClose ==
    /\ ~exited
    /\ \E c \in Channels :
          /\ ~wclosed[c]
          /\ \/ ip <= Len(script) /\ script[ip] = CloseOp(c) /\ ip' = ip + 1
             \/ ip > Len(script) /\ ip' = ip    \* the exit closes what is open
          /\ wclosed' = [wclosed EXCEPT ![c] = TRUE]
    /\ UNCHANGED <<botVars, call, script, exited, retcode, pipe, sink_line_call,
                   rbuf, rlist, buffers, rs, i, pc, outcome, sunk, eofSeen>>

ChildExit ==
    /\ ~exited
    /\ ip > Len(script)
    /\ \A c \in Channels : wclosed[c]
    /\ exited' = TRUE
    /\ UNCHANGED <<botVars, call, script, ip, wclosed, retcode, pipe, sink_line_call,
                   rbuf, rlist, buffers, rs, i, pc, outcome, sunk, eofSeen>>

(***************************************************************************)
(* Popen.__init__ has run: the pipes exist when a sink was given, and the  *)
(* echoed command line has been handed to the sink.                        *)
(***************************************************************************)
NoOutcome == [kind |-> "none", returncode |-> 0, cmd |-> <<>>]
Returned == [kind |-> "return", returncode |-> 0, cmd |-> <<>>]
Exception(kind) == [kind |-> kind, returncode |-> 0, cmd |-> <<>>]
IndexError == Exception("IndexError")
CalledProcessError(retval, cmd) ==
    [kind |-> "CalledProcessError", returncode |-> retval, cmd |-> cmd]

\* Faulty variant: the command line is not echoed
Popen__init___NoEcho(sink) ==
    /\ sink_line_call = sink
    /\ sunk = <<>>

Popen__init__(sink) ==
    /\ sink_line_call = sink
    /\ sunk = IF sink THEN <<SinkEntry("echo", None, EchoLine(call))>>
                      ELSE <<>>

InitPopenCall ==
    /\ call \in Calls
    /\ script \in Scripts
    /\ retcode \in RetCodes
    /\ ip = 1
    /\ wclosed = [c \in Channels |-> FALSE]
    /\ exited = FALSE
    /\ pipe = [c \in Channels |-> <<>>]
    /\ \E sink \in BOOLEAN : Popen__init__(sink)
    /\ rbuf = [c \in Channels |-> <<>>]
    /\ buffers = <<<<>>, <<>>>>
    /\ rlist = <<STDOUT, STDERR>>
    /\ rs = <<>>
    /\ i = 0
    /\ pc = "communicate"
    /\ outcome = NoOutcome
    /\ eofSeen = {}

(***************************************************************************)
(* Popen.communicate                                                       *)
(***************************************************************************)
CommunicateEnter ==
    /\ pc = "communicate"
    /\ \/ /\ sink_line_call
          /\ buffers' = <<<<>>, <<>>>>
          /\ rlist' = <<STDOUT, STDERR>>
          /\ pc' = "select"
       \/ /\ ~sink_line_call
          /\ UNCHANGED <<buffers, rlist>>
          /\ pc' = "super"
    /\ UNCHANGED <<botVars, call, script, ip, wclosed, exited, retcode, pipe,
                   sink_line_call, rbuf, rs, i, outcome, sunk, eofSeen>>

\* subprocess.Popen.communicate of a child with no pipes: wait for it
SuperCommunicate ==
    /\ pc = "super"
    /\ exited
    /\ pc' = "wait"
    /\ UNCHANGED <<botVars, call, script, ip, wclosed, exited, retcode, pipe,
                   sink_line_call, rbuf, rlist, buffers, rs, i, outcome,
                   sunk, eofSeen>>

\* a descriptor selects as readable when the pipe holds bytes or is at EOF
Ready(c) == pipe[c] # <<>> \/ wclosed[c]

\* the ready members of a list of streams, in list order
RECURSIVE ReadyOf(_)
ReadyOf(s) ==
    IF s = <<>> THEN <<>>
    ELSE IF Ready(Head(s)) THEN <<Head(s)>> \o ReadyOf(Tail(s))
         ELSE ReadyOf(Tail(s))

\* rs, _, _ = select.select(rlist, [], []): blocks until a stream is ready
Select ==
    /\ pc = "select"
    /\ ReadyOf(rlist) # <<>>
    /\ rs' = ReadyOf(rlist)
    /\ i' = 0
    /\ pc' = "readline"
    /\ UNCHANGED <<botVars, call, script, ip, wclosed, exited, retcode, pipe,
                   sink_line_call, rbuf, rlist, buffers, outcome, sunk,
                   eofSeen>>

\* enumerate(reversed(rs)): the fd of iteration i
CurrentFd == rs[Len(rs) - i]

\* for buf in buffers: self._submit_buffer(buf, True)
RECURSIVE FinalFlush(_)
FinalFlush(bufs) ==
    IF bufs = <<>> THEN <<>>
    ELSE SinkEntries("final", None, _submit_buffer(Head(bufs), TRUE).calls)
             \o FinalFlush(Tail(bufs))

\* the end of one iteration of the for loop, with the lists and the sink
\* calls the iteration has produced
EndOfIteration(rl, bufs, calls) ==
    /\ rlist' = rl
    /\ buffers' = bufs
    /\ IF i + 1 < Len(rs)
       THEN /\ i' = i + 1
            /\ pc' = "readline"
            /\ sunk' = sunk \o calls
       ELSE /\ i' = i
            /\ IF Len(rl) = 0
               THEN /\ pc' = "wait"
                    /\ sunk' = sunk \o calls \o FinalFlush(bufs)
               ELSE /\ pc' = "select"
                    /\ sunk' = sunk \o calls
    /\ outcome' = outcome

\* an exception leaves communicate and Popen.checked
Raise(e) ==
    /\ pc' = "done"
    /\ outcome' = e
    /\ UNCHANGED <<rlist, buffers, i, sunk>>

\* the body of the for loop once fd.readline() has returned read
LoopBody(fd, read) ==
    IF Len(read) = 0
    THEN LET k == Len(rs) - (i + 1)
         IN  IF ~InRange(rlist, k) \/ ~InRange(buffers, k)
             THEN Raise(IndexError)
             ELSE LET buf == PyGet(buffers, k)
                      calls == IF Len(buf) # 0
                               THEN SinkEntries("force", fd,
                                        _submit_buffer(buf, TRUE).calls)
                               ELSE <<>>
                  IN  EndOfIteration(PyDel(rlist, k), PyDel(buffers, k),
                                     calls)
    ELSE IF ~InRange(buffers, i)
         THEN Raise(IndexError)
         ELSE LET buf == PyGet(buffers, i) \o read
                  sub == _submit_buffer(buf, FALSE)
              IN  EndOfIteration(rlist, PySet(buffers, i, sub.ret),
                                 SinkEntries("line", fd, sub.calls))

\* fd.readline() blocked for a newline: the buffered reader takes what the
\* pipe holds and goes on waiting
ReadlineFill ==
    /\ pc = "readline"
    /\ ~Contains(rbuf[CurrentFd], NL)
    /\ pipe[CurrentFd] # <<>>
    /\ rbuf' = [rbuf EXCEPT ![CurrentFd] = @ \o pipe[CurrentFd]]
    /\ pipe' = [pipe EXCEPT ![CurrentFd] = <<>>]
    /\ UNCHANGED <<botVars, call, script, ip, wclosed, exited, retcode,
                   sink_line_call, rlist, buffers, rs, i, pc, outcome, sunk,
                   eofSeen>>

\* fd.readline() returns a line that ends with a newline
ReadlineLine ==
    /\ pc = "readline"
    /\ Contains(rbuf[CurrentFd], NL)
    /\ LET fd == CurrentFd
           k == FirstIndex(rbuf[fd], NL)
       IN  /\ rbuf' = [rbuf EXCEPT ![fd] = SubSeq(@, k + 1, Len(@))]
           /\ LoopBody(fd, SubSeq(rbuf[fd], 1, k))
    /\ UNCHANGED <<botVars, call, script, ip, wclosed, exited, retcode, pipe,
                   sink_line_call, rs, eofSeen>>

\* fd.readline() at end of stream: what is left, b"" when nothing is
ReadlineEOF ==
    /\ pc = "readline"
    /\ ~Contains(rbuf[CurrentFd], NL)
    /\ pipe[CurrentFd] = <<>>
    /\ wclosed[CurrentFd]
    /\ LET fd == CurrentFd
       IN  /\ rbuf' = [rbuf EXCEPT ![fd] = <<>>]
           /\ eofSeen' = IF rbuf[fd] = <<>> THEN eofSeen \cup {fd}
                                            ELSE eofSeen
           /\ LoopBody(fd, rbuf[fd])
    /\ UNCHANGED <<botVars, call, script, ip, wclosed, exited, retcode, pipe,
                   sink_line_call, rs>>

(***************************************************************************)
(* Popen.checked after communicate: proc.wait() and the exit code          *)
(***************************************************************************)
Wait ==
    /\ pc = "wait"
    /\ exited
    /\ LET retval == retcode
       IN  outcome' = IF retval # 0
                      THEN CalledProcessError(retval, Join(call))
                      ELSE Returned
    /\ pc' = "done"
    /\ UNCHANGED <<botVars, call, script, ip, wclosed, exited, retcode, pipe,
                   sink_line_call, rbuf, rlist, buffers, rs, i, sunk,
                   eofSeen>>

NextPopen ==
    \/ ChildWrite
    \/ ChildClose
    \/ ChildExit
    \/ CommunicateEnter
    \/ SuperCommunicate
    \/ Select
    \/ ReadlineFill
    \/ ReadlineLine
    \/ ReadlineEOF
    \/ Wait

(***************************************************************************)
(* What the sink has received, and what the child has produced.            *)
(***************************************************************************)
Range(s) == {s[k] : k \in 1..Len(s)}

RECURSIVE DataOf(_, _, _)
\* the data of the sink calls of one kind made while reading fd, in order
DataOf(entries, kind, fd) ==
    IF entries = <<>> THEN <<>>
    ELSE IF Head(entries).kind = kind /\ Head(entries).fd = fd
         THEN <<Head(entries).data>> \o DataOf(Tail(entries), kind, fd)
         ELSE DataOf(Tail(entries), kind, fd)

Produced(c) == Written(script, c)
CommunicateEnded == pc \in {"wait", "done"}
CheckedEnded == pc = "done"

\* fd.readline() cannot return: no newline buffered, pipe empty, not at EOF
BlockedInReadline ==
    /\ pc = "readline"
    /\ ~Contains(rbuf[CurrentFd], NL)
    /\ pipe[CurrentFd] = <<>>
    /\ ~wclosed[CurrentFd]

\* the child cannot go on: its next write is to a full pipe
ChildBlocked ==
    /\ ~exited
    /\ ip <= Len(script)
    /\ script[ip].op = "write"
    /\ Len(pipe[script[ip].ch]) >= PipeCap

(***************************************************************************)
(* C1: once communicate (with a sink) has ended, the sink has received     *)
(* the complete lines of each channel, each exactly once and in the order  *)
(* the channel produced them.                                              *)
(***************************************************************************)
C1_EveryLineOnceInOrder ==
    (sink_line_call /\ CommunicateEnded) =>
        \A c \in Channels :
            DataOf(sunk, "line", c) = CompleteLines(Produced(c))

(***************************************************************************)
(* C2: a channel is out of the active set exactly when end-of-stream was   *)
(* read on that channel, and from then on its residual partial line has    *)
(* been flushed to the sink exactly once if it is non-empty, and not at    *)
(* all if it is empty.                                                     *)
(***************************************************************************)
C2_EofRemovesThatChannelAndFlushes ==
    (sink_line_call /\ pc \in {"select", "readline", "wait", "done"}) =>
        \A c \in Channels :
            /\ c \in eofSeen <=> c \notin Range(rlist)
            /\ c \in eofSeen =>
                  DataOf(sunk, "force", c) =
                      IF Residual(Produced(c)) # <<>>
                      THEN <<Residual(Produced(c))>>
                      ELSE <<>>

(***************************************************************************)
(* C3: communicate with a sink never raises, and it has not ended before   *)
(* end-of-stream was read on each of the two channels.                     *)
(***************************************************************************)
C3_ReturnsNormallyAfterBothEof ==
    sink_line_call =>
        /\ outcome.kind # "IndexError"
        /\ CommunicateEnded => eofSeen = Channels

(***************************************************************************)
(* C4: the reader is never blocked in a read on one channel while the      *)
(* other channel has bytes waiting, and the reader and the child never     *)
(* wait for each other.                                                    *)
(***************************************************************************)
C4_NeverBlockedWhileOtherReady ==
    /\ ~(BlockedInReadline /\
            \E d \in Channels \ {CurrentFd} : pipe[d] # <<>>)
    /\ ~(BlockedInReadline /\ ChildBlocked)

(***************************************************************************)
(* C5: Popen.checked returns when the child exits with code 0 and raises   *)
(* CalledProcessError with the child's exit code and the joined command    *)
(* when it exits with another code, with a sink and without one.           *)
(***************************************************************************)
C5_CheckedFollowsExitCode ==
    CheckedEnded =>
        outcome = IF retcode = 0 THEN Returned
                  ELSE CalledProcessError(retcode, Join(call))

(***************************************************************************)
(*                                                                         *)
(*                 The build pipeline and the DocBot                       *)
(*                                                                         *)
(***************************************************************************)
MaxEvents == 2    \* events (notifications, commands) the bot handles
MaxTmp == 2       \* names tempfile can choose from

\* the str that a sequence of pieces stands for
RECURSIVE Str(_)
Str(text) == IF text = <<>> THEN "" ELSE Head(text) \o Str(Tail(text))

Slash == "/"
\* ref.split("/"): the segments, each a str
SplitRef(ref) ==
    LET segments == SplitOn(ref, Slash)
    IN  [k \in 1..Len(segments) |-> Str(segments[k])]

BranchMaster == "master"
BranchDevel == "devel"

(***************************************************************************)
(* Build.__init__ and BuildAndMove.__init__.  ValueError is the exception  *)
(* of a constructor that rejects its arguments.                            *)
(***************************************************************************)
ValueError == [cls |-> "ValueError"]

\* an optional str: None, or the pieces of the str
NoneText == [is_none |-> TRUE, text |-> <<>>]
Some(text) == [is_none |-> FALSE, text |-> text]

Build(name, branch, submodules, commands, working_copy) ==
    [cls |-> "Build", name |-> name, branch |-> branch,
     submodules |-> submodules, commands |-> commands,
     working_copy |-> working_copy,
     move_to |-> None, move_from |-> NoneText,
     project |-> [name |-> None, repository_url |-> None,
                  working_copy |-> None]]

BuildAndMove(name, branch, submodules, commands, working_copy, move_to, move_from) ==
    IF move_to = None \/ move_to = ""
    THEN ValueError
    ELSE [Build(name, branch, submodules, commands, working_copy)
             EXCEPT !.cls = "BuildAndMove",
                    !.move_to = move_to, !.move_from = move_from]

(***************************************************************************)
(* Python dicts as lists of (key, value) pairs in insertion order.         *)
(***************************************************************************)
Keys(d) == {d[k][1] : k \in 1..Len(d)}
Get(d, key) == d[CHOOSE k \in 1..Len(d) : d[k][1] = key][2]
\* d[key] = value
Put(d, key, value) ==
    IF key \in Keys(d)
    THEN [k \in 1..Len(d) |->
             IF d[k][1] = key THEN <<key, value>> ELSE d[k]]
    ELSE Append(d, <<key, value>>)
\* dict(pairs)
RECURSIVE DictOf(_)
DictOf(pairs) ==
    IF pairs = <<>> THEN <<>>
    ELSE LET front == DictOf(SubSeq(pairs, 1, Len(pairs) - 1))
             last == pairs[Len(pairs)]
         IN  Put(front, last[1], last[2])
\* d.values()
Values(d) == [k \in 1..Len(d) |-> d[k][2]]

(***************************************************************************)
(* Project.__init__: the back-reference of each build and the triggers     *)
(***************************************************************************)
\* what a build reads through build.project
ProjectRef(name, repository_url, working_copy) ==
    [name |-> name, repository_url |-> repository_url,
     working_copy |-> working_copy]

\* for build in self.builds: triggers.setdefault(key, []).append(build)
RECURSIVE Triggers(_, _)
Triggers(pubsub_name, blds) ==
    IF blds = <<>> THEN <<>>
    ELSE LET front == Triggers(pubsub_name, SubSeq(blds, 1, Len(blds) - 1))
             b == blds[Len(blds)]
             key == <<pubsub_name, b.branch>>
             build_list == IF key \in Keys(front) THEN Get(front, key)
                                                  ELSE <<>>
         IN  Put(front, key, Append(build_list, b))

Project(name, blds, repository_url, pubsub_name, working_copy) ==
    IF repository_url = None \/ repository_url = ""
           \/ \E k \in 1..Len(blds) : blds[k].cls = "ValueError"
    THEN ValueError
    ELSE LET owned == [k \in 1..Len(blds) |->
                          [blds[k] EXCEPT !.project =
                              ProjectRef(name, repository_url, working_copy)]]
         IN  [cls |-> "Project", name |-> name,
              repository_url |-> repository_url,
              pubsub_name |-> pubsub_name,
              working_copy |-> working_copy,
              builds |-> owned,
              triggers |-> IF pubsub_name # None
                           THEN Triggers(pubsub_name, owned)
                           ELSE <<>>]

\* Project.declare
Declare(name, blds, repository_url, pubsub_name, working_copy) ==
    <<name, Project(name, blds, repository_url, pubsub_name, working_copy)>>

(***************************************************************************)
(* Configuration documents: what exec(conf) leaves in the namespace, or    *)
(* the exception it raises.                                                *)
(***************************************************************************)
Make == <<"make">>
MakeInstall == <<"make", "install">>

Alpha ==
    Declare("alpha",
        <<Build("docs", BranchMaster, <<"sub1", "sub2">>, <<Make, MakeInstall>>,
                None),
          BuildAndMove("site", BranchMaster, <<>>, <<Make>>, None,
                       "/srv/www", NoneText),
          Build("devel", BranchDevel, <<"sub1">>, <<Make>>, "/srv/devel")>>,
        "git://alpha", "repoA", None)

Beta ==
    Declare("beta",
        <<BuildAndMove("html", BranchMaster, <<>>, <<Make>>, None,
                       "/srv/html", Some(<<"{builddir}", "/html">>))>>,
        "git://beta", "repoA", None)

Gamma ==
    Declare("gamma",
        <<Build("all", BranchMaster, <<>>, <<Make>>, None)>>,
        "git://gamma", "repoG", "/srv/gamma")

Delta ==
    Declare("delta",
        <<Build("pdf", BranchMaster, <<>>, <<Make>>, None)>>,
        "git://delta", None, None)

Broken ==
    Declare("broken",
        <<BuildAndMove("site", BranchMaster, <<>>, <<Make>>, None, "",
                       NoneText)>>,
        "git://broken", "repoA", None)

\* projects = [..., ("misc", 5)]: a value that is not a Project
NotAProject == [cls |-> "int"]

Doc(auth, decls) == [authorized |-> auth, projects |-> decls]
DocFull == Doc(<<"admin@hub">>, <<Alpha, Beta, Gamma, Delta>>)
DocSwapped == Doc(<<"admin@hub", "dev@hub">>, <<Beta, Alpha>>)
\* a constructor called by the document raises
DocBroken == Doc(<<"admin@hub">>, <<Alpha, Broken>>)
\* the document evaluates, but an element of projects is not a pair
DocNoPair == Doc(<<"dev@hub">>, <<Beta, <<"misc">>>>)
\* the document evaluates, but a value of projects is not a Project
DocNoProject == Doc(<<"dev@hub">>, <<Beta, <<"misc", NotAProject>>, Gamma>>)
ValidDocs == {DocFull, DocSwapped}
ConfigDocs == ValidDocs \cup {DocBroken, DocNoPair, DocNoProject}

\* exec(conf, globals(), namespace): the namespace, or the exception
Exec(conf) ==
    IF \E k \in 1..Len(conf.projects) :
           /\ Len(conf.projects[k]) = 2
           /\ conf.projects[k][2].cls = "ValueError"
    THEN [raised |-> TRUE, exception |-> Exception("ValueError"),
          namespace |-> Doc(<<>>, <<>>)]
    ELSE [raised |-> FALSE, exception |-> NoOutcome, namespace |-> conf]

(***************************************************************************)
(* DocBot.reloadConfig: the new value of the four tables                   *)
(***************************************************************************)
\* Faulty variant: self.repobranch_map[reprobranch] = build, so that the builds
\* of the project declared last replace the others under a shared key
RECURSIVE Extend_Overwrite(_, _)
Extend_Overwrite(map, triggers) ==
    IF triggers = <<>> THEN map
    ELSE LET key == Head(triggers)[1]
         IN  Extend_Overwrite(Put(map, key, Head(triggers)[2]),
                              Tail(triggers))

\* for reprobranch, build in project.triggers.items():
\*     self.repobranch_map.setdefault(reprobranch, []).extend(build)
RECURSIVE Extend(_, _)
Extend(map, triggers) ==
    IF triggers = <<>> THEN map
    ELSE LET key == Head(triggers)[1]
             old == IF key \in Keys(map) THEN Get(map, key) ELSE <<>>
         IN  Extend(Put(map, key, old \o Head(triggers)[2]), Tail(triggers))

\* for project in self.projects.values(): ...   The loop is left by the
\* AttributeError of project.triggers at a value that is not a Project.
RECURSIVE MergeTriggers(_, _)
MergeTriggers(map, projs) ==
    IF projs = <<>> THEN map
    ELSE IF Head(projs).cls # "Project" THEN map
    ELSE MergeTriggers(Extend(map, Head(projs).triggers), Tail(projs))

\* lines 240-247 when no statement of them raises
Loaded(namespace) ==
    LET projs == DictOf(namespace.projects)
    IN  [authorized |-> Range(namespace.authorized),
         blacklist |-> {},
         projects |-> projs,
         repobranch_map |-> MergeTriggers(<<>>, Values(projs))]

\* self.authorized, self.blacklist, self.projects, self.repobranch_map
Tables == [authorized |-> authorized, blacklist |-> blacklist,
           projects |-> projects, repobranch_map |-> repobranch_map]

\* reloadConfig(): the tables it leaves; result is what it returns (the
\* exc_info of exec, NoOutcome for None) and raised the exception that
\* leaves it (NoOutcome when it returns)
reloadConfig(self, conf) ==
    LET r == Exec(conf)
        ns == r.namespace
    IN  IF r.raised
        THEN [self |-> self, result |-> r.exception, raised |-> NoOutcome]
        ELSE IF \E k \in 1..Len(ns.projects) : Len(ns.projects[k]) # 2
        THEN [self |-> [self EXCEPT !.authorized = Range(ns.authorized),
                                    !.blacklist = {}],
              result |-> NoOutcome, raised |-> Exception("ValueError")]
        ELSE [self |-> Loaded(ns), result |-> NoOutcome,
              raised |-> IF \E k \in 1..Len(ns.projects) :
                               ns.projects[k][2].cls # "Project"
                         THEN Exception("AttributeError")
                         ELSE NoOutcome]

(***************************************************************************)
(* Groups of variables                                                     *)
(***************************************************************************)
cfgVars == <<authorized, blacklist, projects, repobranch_map, config_file>>
loopVars == <<handler, builds, build_i, build>>
envVars == <<tmp_dir, tmp_dir_context, sub_i, cmd_i>>
worldVars == <<fs, gitdirs>>

(***************************************************************************)
(* Messages and text                                                       *)
(***************************************************************************)
DocsSwitch == "docs"      \* self.switch
BotsSwitch == "bots"      \* self.bots_switch

\* self.send_message(mto=..., mbody=..., msubject=..., mtype="groupchat")
Message(mto, mbody, msubject) ==
    [mto |-> mto, mbody |-> mbody, msubject |-> msubject]

\* str.strip()
RECURSIVE LStrip(_)
LStrip(text) ==
    IF text # <<>> /\ Head(text) \in Whitespace THEN LStrip(Tail(text))
    ELSE text
RECURSIVE RStrip(_)
RStrip(text) ==
    IF text # <<>> /\ text[Len(text)] \in Whitespace
    THEN RStrip(SubSeq(text, 1, Len(text) - 1))
    ELSE text
Strip(text) == RStrip(LStrip(text))

\* rebuild.log_func: the messages it sends
log_func(msg) == <<Message(DocsSwitch, msg, NoneText)>>

\* rebuild.log_func_binary: the messages it sends
log_func_binary(buf) ==
    LET msg == Strip(buf)
    IN  IF msg # <<>> THEN log_func(msg) ELSE <<>>

\* "Rebuilding {0} from project {1}".format(build.name, build.project.name)
Topic(b) == <<"Rebuilding", Space, b.name, Space, "from", Space, "project",
              Space, b.project.name>>

\* "jonas: Project {0}, target {1} is broken, traceback logged to docs"
BrokenText(b) == <<"jonas:", Space, "Project", Space, b.project.name, ",",
                   Space, "target", Space, b.name, Space, "is", Space,
                   "broken,", Space, "traceback", Space, "logged", Space,
                   "to", Space, "docs">>

\* DocBot.formatException: traceback.format_exception(*sys.exc_info()).  The
\* argument is not used; handled is the exception whose except clause is
\* running, NoOutcome when none is.
formatException(exc_info, handled) == <<handled.kind>> \o handled.cmd

DoneText == <<"done.">>
IdleSubject == <<"docbot", Space, "is", Space, "idle">>

(***************************************************************************)
(* One Popen.checked call of the pipeline.  Its outcomes are those of      *)
(* SpecPopen: it returns (the child exited with 0), it raises              *)
(* CalledProcessError (the child exited with another code), or communicate *)
(* raises IndexError, in which case the child may or may not have done     *)
(* what it was started for.  done tells whether the command took effect.   *)
(***************************************************************************)
BuildRetCodes == {0, 1}       \* exit codes of the commands of a build

CheckedOutcomes(words) ==
    {[result |-> Returned, done |-> TRUE]}
        \cup {[result |-> CalledProcessError(rc, Join(words)), done |-> FALSE] :
                 rc \in BuildRetCodes \ {0}}
        \cup {[result |-> IndexError, done |-> d] : d \in BOOLEAN}

\* checked(words) with sink_line_call=log_func: what is recorded and sent
Checked(words, o) ==
    /\ issued' = Append(issued, [call |-> words, outcome |-> o.result])
    /\ sent' = sent \o log_func_binary(EchoLine(words))

(***************************************************************************)
(* BuildEnvironment.__enter__                                              *)
(***************************************************************************)
TmpPath(k) == "/tmp/tmp" \o ToString(k)
\* tempfile.TemporaryDirectory(): a name that is not in use
FreshTmp == TmpPath(CHOOSE k \in 1..MaxTmp :
                        /\ TmpPath(k) \notin fs
                        /\ \A j \in 1..(k - 1) : TmpPath(j) \in fs)

\* a or b
Or(a, b) == IF a # None /\ a # "" THEN a ELSE b

\* lines 137-143: the directory of the environment; os.makedirs may fail.
\* (os.chdir changes the working directory of the process, which nothing in
\* docbot.py reads.)
EnvEnter ==
    /\ hpc = "enter"
    /\ LET ephemeral == tmp_dir = None
           dir == IF ephemeral THEN FreshTmp ELSE tmp_dir
       IN  /\ ephemeral => \E k \in 1..MaxTmp : TmpPath(k) \notin fs
           /\ tmp_dir' = dir
           /\ tmp_dir_context' = IF ephemeral THEN dir ELSE tmp_dir_context
           /\ \/ /\ fs' = fs \cup {dir}
                 /\ hpc' = "fetch_or_clone"
                 /\ exc' = exc
              \/ /\ ~ephemeral
                 /\ dir \notin fs
                 /\ fs' = fs
                 /\ hpc' = "enter_except"
                 /\ exc' = Exception("OSError")
    /\ UNCHANGED <<popenVars, cfgVars, loopVars, sub_i, cmd_i, gitdirs, nevents,
                   issued, sent, rebuilds, printed, replied, ended>>

\* a checked step of __enter__: on to next, or into the except clause
EnvStep(words, o, next) ==
    /\ Checked(words, o)
    /\ IF o.result = Returned
       THEN hpc' = next /\ exc' = exc
       ELSE hpc' = "enter_except" /\ exc' = o.result

GitFetch == <<"git", "fetch", "origin">>
GitClone(url, dir) == <<"git", "clone", url, dir>>
GitCheckout(branch) == <<"git", "checkout", branch>>
GitPull == <<"git", "pull">>
GitSubmoduleInit(submodule) == <<"git", "submodule", "init", submodule>>
GitSubmoduleUpdate(submodule) == <<"git", "submodule", "update", submodule>>

\* Faulty variant: clones without looking for a .git directory
EnvFetchOrClone_AlwaysClone ==
    /\ hpc = "fetch_or_clone"
    /\ LET words == GitClone(build.project.repository_url, tmp_dir)
       IN  \E o \in CheckedOutcomes(words) :
              /\ EnvStep(words, o, "checkout")
              /\ gitdirs' = IF o.done THEN gitdirs \cup {tmp_dir} ELSE gitdirs
    /\ UNCHANGED <<popenVars, cfgVars, loopVars, envVars, fs, nevents,
                   rebuilds, printed, replied, ended>>

\* lines 144-147
EnvFetchOrClone ==
    /\ hpc = "fetch_or_clone"
    /\ LET words == IF tmp_dir \in gitdirs
                    THEN GitFetch
                    ELSE GitClone(build.project.repository_url, tmp_dir)
       IN  \E o \in CheckedOutcomes(words) :
              /\ EnvStep(words, o, "checkout")
              /\ gitdirs' = IF o.done THEN gitdirs \cup {tmp_dir} ELSE gitdirs
    /\ UNCHANGED <<popenVars, cfgVars, loopVars, envVars, fs, nevents,
                   rebuilds, printed, replied, ended>>

\* line 149
EnvCheckout ==
    /\ hpc = "checkout"
    /\ \E o \in CheckedOutcomes(GitCheckout(build.branch)) :
          EnvStep(GitCheckout(build.branch), o, "pull")
    /\ UNCHANGED <<popenVars, cfgVars, loopVars, envVars, worldVars, nevents,
                   rebuilds, printed, replied, ended>>

\* line 150, and the start of the loop of line 152
EnvPull ==
    /\ hpc = "pull"
    /\ \E o \in CheckedOutcomes(GitPull) : EnvStep(GitPull, o, "submodules")
    /\ sub_i' = 0
    /\ UNCHANGED <<popenVars, cfgVars, loopVars, tmp_dir, tmp_dir_context, cmd_i,
                   worldVars, nevents, rebuilds, printed, replied, ended>>

\* line 153
EnvSubmoduleInit ==
    /\ hpc = "submodules"
    /\ sub_i < Len(build.submodules)
    /\ LET words == GitSubmoduleInit(PyGet(build.submodules, sub_i))
       IN  \E o \in CheckedOutcomes(words) :
              EnvStep(words, o, "submodule_update")
    /\ UNCHANGED <<popenVars, cfgVars, loopVars, envVars, worldVars, nevents,
                   rebuilds, printed, replied, ended>>

\* line 154
EnvSubmoduleUpdate ==
    /\ hpc = "submodule_update"
    /\ LET words == GitSubmoduleUpdate(PyGet(build.submodules, sub_i))
       IN  \E o \in CheckedOutcomes(words) :
              EnvStep(words, o, "submodules")
    /\ sub_i' = sub_i + 1
    /\ UNCHANGED <<popenVars, cfgVars, loopVars, tmp_dir, tmp_dir_context, cmd_i,
                   worldVars, nevents, rebuilds, printed, replied, ended>>

\* line 160: return self; Build.build enters the body of the with statement
EnvEntered ==
    /\ hpc = "submodules"
    /\ sub_i = Len(build.submodules)
    /\ hpc' = "do_build"
    /\ cmd_i' = 0
    /\ UNCHANGED <<popenVars, cfgVars, loopVars, tmp_dir, tmp_dir_context, sub_i,
                   worldVars, nevents, exc, issued, sent, rebuilds, printed,
                   replied, ended>>

\* tempfile.TemporaryDirectory.cleanup: the tree is gone afterwards
Cleanup(dir) ==
    /\ fs' = fs \ {dir}
    /\ gitdirs' = gitdirs \ {dir}

\* Faulty variant: the except clause re-raises without cleaning up
EnvEnterExcept_NoCleanup ==
    /\ hpc = "enter_except"
    /\ tmp_dir_context' = None
    /\ hpc' = "rebuild_end"
    /\ UNCHANGED <<popenVars, cfgVars, loopVars, tmp_dir, sub_i, cmd_i,
                   worldVars, nevents, exc, issued, sent, rebuilds, printed,
                   replied, ended>>

\* lines 155-159: the except clause of __enter__
EnvEnterExcept ==
    /\ hpc = "enter_except"
    /\ IF tmp_dir_context # None
       THEN Cleanup(tmp_dir_context)
       ELSE UNCHANGED <<fs, gitdirs>>
    /\ tmp_dir_context' = None
    /\ hpc' = "rebuild_end"
    /\ UNCHANGED <<popenVars, cfgVars, loopVars, tmp_dir, sub_i, cmd_i, nevents,
                   exc, issued, sent, rebuilds, printed, replied, ended>>

(***************************************************************************)
(* Build._do_build and BuildAndMove._do_build                              *)
(***************************************************************************)
\* Faulty variant: the exit code of a command is not looked at
DoBuildCommand_Unchecked ==
    /\ hpc = "do_build"
    /\ cmd_i < Len(build.commands)
    /\ LET command == PyGet(build.commands, cmd_i)
       IN  \E o \in CheckedOutcomes(command) :
              /\ Checked(command, o)
              /\ hpc' = hpc /\ cmd_i' = cmd_i + 1 /\ exc' = exc
    /\ UNCHANGED <<popenVars, cfgVars, loopVars, tmp_dir, tmp_dir_context,
                   sub_i, worldVars, nevents, rebuilds, printed, replied,
                   ended>>

\* lines 94-95: one command of self.commands
DoBuildCommand ==
    /\ hpc = "do_build"
    /\ cmd_i < Len(build.commands)
    /\ LET command == PyGet(build.commands, cmd_i)
       IN  \E o \in CheckedOutcomes(command) :
              /\ Checked(command, o)
              /\ IF o.result = Returned
                 THEN hpc' = hpc /\ cmd_i' = cmd_i + 1 /\ exc' = exc
                 ELSE hpc' = "exit" /\ cmd_i' = cmd_i /\ exc' = o.result
    /\ UNCHANGED <<popenVars, cfgVars, loopVars, tmp_dir, tmp_dir_context, sub_i,
                   worldVars, nevents, rebuilds, printed, replied, ended>>

\* the loop of line 94 is over: Build._do_build returns
DoBuildReturn ==
    /\ hpc = "do_build"
    /\ cmd_i = Len(build.commands)
    /\ hpc' = IF build.cls = "BuildAndMove" THEN "rm" ELSE "exit"
    /\ UNCHANGED <<popenVars, cfgVars, loopVars, envVars, worldVars, nevents, exc,
                   issued, sent, rebuilds, printed, replied, ended>>

\* self.move_from.format(builddir=env.tmp_dir)
Format(template, builddir) ==
    Str([k \in 1..Len(template) |->
            IF template[k] = "{builddir}" THEN builddir ELSE template[k]])

\* lines 114-119
MoveFrom(b, dir) ==
    IF ~b.move_from.is_none THEN Format(b.move_from.text, dir) ELSE dir

RmRf(path) == <<"rm", "-rf", path>>
Mv(from, to) == <<"mv", from, to>>

\* Faulty variant: the destination is removed without a look at how rm ended, and
\* before the commands have run
MoveRm_First ==
    /\ hpc \in {"rm", "do_build"}
    /\ build.cls = "BuildAndMove"
    /\ LET words == RmRf(build.move_to)
       IN  \E o \in CheckedOutcomes(words) :
              /\ Checked(words, o)
              /\ fs' = IF o.done THEN fs \ {build.move_to} ELSE fs
              /\ gitdirs' = IF o.done THEN gitdirs \ {build.move_to}
                                      ELSE gitdirs
              /\ IF o.result = Returned
                 THEN hpc' = "mv" /\ exc' = exc
                 ELSE hpc' = "exit" /\ exc' = o.result
    /\ UNCHANGED <<popenVars, cfgVars, loopVars, envVars, nevents,
                   rebuilds, printed, replied, ended>>

\* line 120
MoveRm ==
    /\ hpc = "rm"
    /\ LET words == RmRf(build.move_to)
       IN  \E o \in CheckedOutcomes(words) :
              /\ Checked(words, o)
              /\ fs' = IF o.done THEN fs \ {build.move_to} ELSE fs
              /\ gitdirs' = IF o.done THEN gitdirs \ {build.move_to}
                                      ELSE gitdirs
              /\ IF o.result = Returned
                 THEN hpc' = "mv" /\ exc' = exc
                 ELSE hpc' = "exit" /\ exc' = o.result
    /\ UNCHANGED <<popenVars, cfgVars, loopVars, envVars, nevents,
                   rebuilds, printed, replied, ended>>

\* line 121: the build directory itself, or a directory below it, becomes
\* the destination
MoveMv ==
    /\ hpc = "mv"
    /\ LET from == MoveFrom(build, tmp_dir)
           words == Mv(from, build.move_to)
       IN  \E o \in CheckedOutcomes(words) :
              /\ Checked(words, o)
              /\ fs' = IF o.done THEN (fs \ {from}) \cup {build.move_to}
                                 ELSE fs
              /\ gitdirs' = IF o.done /\ from \in gitdirs
                            THEN (gitdirs \ {from}) \cup {build.move_to}
                            ELSE gitdirs
              /\ hpc' = "exit"
              /\ exc' = IF o.result = Returned THEN exc ELSE o.result
    /\ UNCHANGED <<popenVars, cfgVars, loopVars, envVars, nevents,
                   rebuilds, printed, replied, ended>>

(***************************************************************************)
(* BuildEnvironment.__exit__.  cleanup() of a directory that is no longer  *)
(* there raises FileNotFoundError or passes, depending on the version of   *)
(* the tempfile module.                                                    *)
(***************************************************************************)
\* Faulty variant: the release removes env.tmp_dir, whoever made it
EnvExit_RemovesTmpDir ==
    /\ hpc = "exit"
    /\ Cleanup(tmp_dir)
    /\ hpc' = "rebuild_end"
    /\ UNCHANGED <<popenVars, cfgVars, loopVars, envVars, nevents, exc,
                   issued, sent, rebuilds, printed, replied, ended>>

EnvExit ==
    /\ hpc = "exit"
    /\ IF tmp_dir_context # None
       THEN /\ Cleanup(tmp_dir_context)
            /\ \E raises \in IF tmp_dir_context \in fs THEN {FALSE}
                                                       ELSE BOOLEAN :
                  exc' = IF raises THEN Exception("FileNotFoundError")
                                   ELSE exc
       ELSE UNCHANGED <<fs, gitdirs, exc>>
    /\ hpc' = "rebuild_end"
    /\ UNCHANGED <<popenVars, cfgVars, loopVars, envVars, nevents,
                   issued, sent, rebuilds, printed, replied, ended>>

(***************************************************************************)
(* DocBot.rebuild                                                          *)
(***************************************************************************)
NoBuild == [cls |-> "None"]

\* lines 325-331, up to Build.build and Project.build_environment, which
\* construct the BuildEnvironment
RebuildEnter ==
    /\ hpc = "rebuild"
    /\ build.cls # "Project"
    /\ rebuilds' = Append(rebuilds, build)
    /\ sent' = <<Message(DocsSwitch, <<>>, Some(Topic(build)))>>
                    \o log_func(Topic(build))
    /\ tmp_dir' = Or(build.working_copy, build.project.working_copy)
    /\ tmp_dir_context' = None
    /\ issued' = <<>>
    /\ exc' = NoOutcome
    /\ hpc' = "enter"
    /\ UNCHANGED <<popenVars, cfgVars, loopVars, sub_i, cmd_i, worldVars, nevents,
                   printed, replied, ended>>

\* Faulty variant: the idle announcement is the last statement of the try
\* block instead of a finally clause
RebuildEnd_NoFinally ==
    /\ hpc = "rebuild_end"
    /\ sent' = IF exc = NoOutcome
               THEN sent \o log_func(DoneText)
                        \o <<Message(DocsSwitch, <<>>, Some(IdleSubject))>>
               ELSE sent \o <<Message(BotsSwitch, BrokenText(build), NoneText),
                              Message(DocsSwitch, formatException(exc, exc),
                                      NoneText)>>
    /\ printed' = IF exc = NoOutcome THEN printed
                  ELSE Append(printed,
                              "Exception during docbuild logged to muc.")
    /\ exc' = NoOutcome
    /\ build_i' = build_i + 1
    /\ hpc' = "for_builds"
    /\ UNCHANGED <<popenVars, cfgVars, handler, builds, build, envVars, worldVars,
                   nevents, issued, rebuilds, replied, ended>>

\* Faulty variant: "done." is announced in the finally clause
RebuildEnd_DoneAlways ==
    /\ hpc = "rebuild_end"
    /\ LET said == IF exc = NoOutcome
                   THEN <<>>
                   ELSE <<Message(BotsSwitch, BrokenText(build), NoneText),
                          Message(DocsSwitch, formatException(exc, exc),
                                  NoneText)>>
       IN  sent' = sent \o said \o log_func(DoneText)
                       \o <<Message(DocsSwitch, <<>>, Some(IdleSubject))>>
    /\ printed' = IF exc = NoOutcome THEN printed
                  ELSE Append(printed,
                              "Exception during docbuild logged to muc.")
    /\ exc' = NoOutcome
    /\ build_i' = build_i + 1
    /\ hpc' = "for_builds"
    /\ UNCHANGED <<popenVars, cfgVars, handler, builds, build, envVars, worldVars,
                   nevents, issued, rebuilds, replied, ended>>

\* lines 332-351: "done.", or the except clause; then the finally clause,
\* and the return to the loop of pubsubPublish
RebuildEnd ==
    /\ hpc = "rebuild_end"
    /\ LET said == IF exc = NoOutcome
                   THEN log_func(DoneText)
                   ELSE <<Message(BotsSwitch, BrokenText(build), NoneText),
                          Message(DocsSwitch, formatException(exc, exc), NoneText)>>
       IN  sent' = sent \o said
                       \o <<Message(DocsSwitch, <<>>, Some(IdleSubject))>>
    /\ printed' = IF exc = NoOutcome THEN printed
                  ELSE Append(printed,
                              "Exception during docbuild logged to muc.")
    /\ exc' = NoOutcome
    /\ build_i' = build_i + 1
    /\ hpc' = "for_builds"
    /\ UNCHANGED <<popenVars, cfgVars, handler, builds, build, envVars, worldVars,
                   nevents, issued, rebuilds, replied, ended>>

(***************************************************************************)
(* DocBot.pubsubPublish                                                    *)
(***************************************************************************)
Repos == {"repoA", "repoG", "repoX", None}
Ref(text) == Some(text)
Refs == {Ref(<<"refs", Slash, "heads", Slash, BranchMaster>>),
         Ref(<<"refs", Slash, "heads", Slash, BranchDevel>>),
         Ref(<<"refs", Slash, "heads", Slash, "unknown-branch">>),
         Ref(<<"refs", Slash, "heads", Slash, BranchMaster, Slash, "x">>),
         Ref(<<"refs", Slash, BranchMaster>>),
         NoneText}

Malformed == "Malformed git-post-update."

\* what the handler starts from
HandlerStart(name, repo, ref) ==
    /\ hpc = "idle"
    /\ nevents < MaxEvents
    /\ nevents' = nevents + 1
    /\ handler' = [name |-> name, repo |-> repo, ref |-> ref]
    /\ rebuilds' = <<>>
    /\ issued' = <<>>
    /\ sent' = <<>>
    /\ build' = NoBuild
    /\ exc' = NoOutcome
    /\ tmp_dir' = None
    /\ tmp_dir_context' = None
    /\ sub_i' = 0
    /\ cmd_i' = 0

\* the handler is left by an exception that nothing in docbot.py catches
HandlerRaises(e) ==
    /\ hpc' = "idle"
    /\ ended' = e.kind
    /\ builds' = <<>>
    /\ build_i' = 0

\* lines 255-268: the fields, the key and the lookup
PubsubPublish ==
    \E repo \in Repos, ref \in Refs :
        /\ HandlerStart("pubsubPublish", repo, ref)
        /\ replied' = <<>>
        /\ printed' = (IF repo = None THEN <<Malformed>> ELSE <<>>)
                          \o (IF ref.is_none THEN <<Malformed>> ELSE <<>>)
        /\ IF ref.is_none
           THEN HandlerRaises(Exception("AttributeError"))
           ELSE IF ~InRange(SplitRef(ref.text), 2)
           THEN HandlerRaises(IndexError)
           ELSE LET repobranch == <<repo, PyGet(SplitRef(ref.text), 2)>>
                IN  IF repobranch \notin Keys(repobranch_map)
                    THEN /\ hpc' = "idle"
                         /\ ended' = "returned"
                         /\ builds' = <<>>
                         /\ build_i' = 0
                    ELSE /\ builds' = Get(repobranch_map, repobranch)
                         /\ build_i' = 0
                         /\ hpc' = "for_builds"
                         /\ ended' = "running"
        /\ UNCHANGED <<popenVars, cfgVars, worldVars, popenVars>>

\* lines 269-270: for build in builds: self.rebuild(build)
ForBuild ==
    /\ hpc = "for_builds"
    /\ build_i < Len(builds)
    /\ build' = PyGet(builds, build_i)
    /\ hpc' = "rebuild"
    /\ UNCHANGED <<popenVars, cfgVars, handler, builds, build_i, exc, envVars,
                   worldVars, nevents, issued, sent, rebuilds, printed,
                   replied, ended>>

\* Faulty variant: pubsubPublish returns after the first rebuild
PubsubPublishReturn_AfterFirst ==
    /\ hpc = "for_builds"
    /\ build_i >= 1
    /\ hpc' = "idle"
    /\ ended' = "returned"
    /\ UNCHANGED <<popenVars, cfgVars, loopVars, exc, envVars, worldVars,
                   nevents, issued, sent, rebuilds, printed, replied>>

\* the loop is over: pubsubPublish returns
PubsubPublishReturn ==
    /\ hpc = "for_builds"
    /\ build_i = Len(builds)
    /\ hpc' = "idle"
    /\ ended' = "returned"
    /\ UNCHANGED <<popenVars, cfgVars, loopVars, exc, envVars, worldVars, nevents,
                   issued, sent, rebuilds, printed, replied>>

(***************************************************************************)
(* DocBot.reloadConfig, from the command "reload"                          *)
(***************************************************************************)
\* repr(value) of what a command returns
ReprTrue == <<"True">>
ReprNone == <<"None">>

\* message() for "reload": lines 296-310, 360-365 and 231-249; conf is what
\* f.read() returns, whatever the file holds by then.  An exception
\* that leaves reloadConfig is handled by the except clause of message, which
\* replies its traceback.  An exc_info that reloadConfig returns goes to
\* replyException from cmdReload, where no exception is being handled; then
\* cmdReload returns None.
CmdReload ==
    /\ HandlerStart("message", "reload", NoneText)
    /\ \E conf \in ConfigDocs :
        LET r == reloadConfig(Tables, conf)
        IN /\ config_file' = conf
           /\ authorized' = r.self.authorized
           /\ blacklist' = r.self.blacklist
           /\ projects' = r.self.projects
           /\ repobranch_map' = r.self.repobranch_map
           /\ printed' = IF r.result = NoOutcome /\ r.raised = NoOutcome
                         THEN <<"repobranch_map">> ELSE <<>>
           /\ replied' =
                 IF r.raised # NoOutcome
                 THEN <<formatException(r.raised, r.raised)>>
                 ELSE IF r.result # NoOutcome
                 THEN <<formatException(r.result, NoOutcome), ReprNone>>
                 ELSE <<ReprTrue>>
    /\ hpc' = "idle"
    /\ ended' = "returned"
    /\ builds' = <<>>
    /\ build_i' = 0
    /\ UNCHANGED <<worldVars, popenVars>>

(***************************************************************************)
(* DocBot.message for the command "rebuild", and DocBot.cmdRebuild         *)
(***************************************************************************)
Quote == "\""
\* an argument as it is typed: a bare word, or a string literal
Word(text) == <<text>>
Literal(text) == <<Quote, text, Quote>>
ProjectNames == {"alpha", "doesnotexist"}
RebuildArgs == {Word(n) : n \in ProjectNames}
                   \cup {Literal(n) : n \in ProjectNames}

\* eval of an argument: the str of a literal; a bare word is a name that is
\* not defined
IsLiteral(source) ==
    Len(source) = 3 /\ source[1] = Quote /\ source[3] = Quote
Eval(source) == source[2]

\* repr of a str
Repr(text) == <<"'">> \o text \o <<"'">>
UnknownProject(projectName) == <<"Unknown project: ", projectName>>

\* lines 296-310 and 353-356: the arguments are evaluated, cmdRebuild looks
\* the project up
CmdRebuild ==
    \E source \in RebuildArgs :
        /\ HandlerStart("message", "rebuild", Some(source))
        /\ printed' = <<>>
        /\ builds' = <<>>
        /\ build_i' = 0
        /\ IF ~IsLiteral(source)
           THEN /\ replied' = <<formatException(Exception("NameError"),
                                                Exception("NameError"))>>
                /\ hpc' = "idle"
                /\ ended' = "returned"
           ELSE IF Eval(source) \notin Keys(projects)
           THEN /\ replied' = <<Repr(UnknownProject(Eval(source)))>>
                /\ hpc' = "idle"
                /\ ended' = "returned"
           ELSE /\ replied' = <<>>
                /\ hpc' = "cmd_rebuild"
                /\ ended' = "running"
        /\ UNCHANGED <<popenVars, cfgVars, worldVars>>

\* line 357 and line 325: self.rebuild(project); a Project has no attribute
\* project, and the AttributeError of build.project, raised before the try
\* statement of rebuild, reaches the except clause of message
RebuildProject ==
    /\ hpc = "cmd_rebuild"
    /\ LET project == Get(projects, Eval(handler.ref.text))
       IN  /\ build' = project
           /\ rebuilds' = Append(rebuilds, project)
    /\ replied' = <<formatException(Exception("AttributeError"),
                                    Exception("AttributeError"))>>
    /\ hpc' = "idle"
    /\ ended' = "returned"
    /\ UNCHANGED <<popenVars, cfgVars, handler, builds, build_i, exc, envVars,
                   worldVars, nevents, issued, sent, printed>>

(***************************************************************************)
(* The bot after DocBot.__init__: the configuration has loaded (the        *)
(* process exits otherwise), no handler is running.                        *)
(***************************************************************************)
\* the tables before the first reloadConfig
EmptyTables == [authorized |-> {}, blacklist |-> {}, projects |-> <<>>,
                repobranch_map |-> <<>>]

FixedDirs == {"/srv/devel", "/srv/gamma"}
Destinations == {"/srv/www", "/srv/html"}

PopenUnused ==
    /\ call = <<>>
    /\ script = <<>>
    /\ ip = 1
    /\ wclosed = [c \in Channels |-> TRUE]
    /\ exited = TRUE
    /\ retcode = 0
    /\ pipe = [c \in Channels |-> <<>>]
    /\ sink_line_call = FALSE
    /\ rbuf = [c \in Channels |-> <<>>]
    /\ rlist = <<>>
    /\ buffers = <<>>
    /\ rs = <<>>
    /\ i = 0
    /\ pc = "unused"
    /\ outcome = NoOutcome
    /\ sunk = <<>>
    /\ eofSeen = {}

Init ==
    /\ PopenUnused
    /\ config_file \in ValidDocs
    /\ LET new == reloadConfig(EmptyTables, config_file).self
       IN  /\ authorized = new.authorized
           /\ blacklist = new.blacklist
           /\ projects = new.projects
           /\ repobranch_map = new.repobranch_map
    /\ hpc = "idle"
    /\ handler = [name |-> None, repo |-> None, ref |-> NoneText]
    /\ builds = <<>>
    /\ build_i = 0
    /\ build = NoBuild
    /\ exc = NoOutcome
    /\ tmp_dir = None
    /\ tmp_dir_context = None
    /\ sub_i = 0
    /\ cmd_i = 0
    /\ \E dirs \in SUBSET FixedDirs :
          /\ fs = dirs \cup Destinations
          /\ gitdirs \in SUBSET dirs
    /\ nevents = 0
    /\ issued = <<>>
    /\ sent = <<>>
    /\ rebuilds = <<>>
    /\ printed = <<>>
    /\ replied = <<>>
    /\ ended = "returned"

(***************************************************************************)
(* SpecPopen: one Popen.checked call; the bot is not there.                *)
(***************************************************************************)
BotUnused ==
    /\ authorized = {}
    /\ blacklist = {}
    /\ projects = <<>>
    /\ repobranch_map = <<>>
    /\ config_file = Doc(<<>>, <<>>)
    /\ hpc = "unused"
    /\ handler = [name |-> None, repo |-> None, ref |-> NoneText]
    /\ builds = <<>>
    /\ build_i = 0
    /\ build = NoBuild
    /\ exc = NoOutcome
    /\ tmp_dir = None
    /\ tmp_dir_context = None
    /\ sub_i = 0
    /\ cmd_i = 0
    /\ fs = {}
    /\ gitdirs = {}
    /\ nevents = 0
    /\ issued = <<>>
    /\ sent = <<>>
    /\ rebuilds = <<>>
    /\ printed = <<>>
    /\ replied = <<>>
    /\ ended = "returned"

InitPopen == InitPopenCall /\ BotUnused


SpecPopen == InitPopen /\ [][NextPopen]_vars

(***************************************************************************)
(* Spec: the bot and its builds.                                           *)
(***************************************************************************)
Next ==
    \/ PubsubPublish
    \/ ForBuild
    \/ PubsubPublishReturn
    \/ RebuildEnter
    \/ EnvEnter
    \/ EnvFetchOrClone
    \/ EnvCheckout
    \/ EnvPull
    \/ EnvSubmoduleInit
    \/ EnvSubmoduleUpdate
    \/ EnvEntered
    \/ EnvEnterExcept
    \/ DoBuildCommand
    \/ DoBuildReturn
    \/ MoveRm
    \/ MoveMv
    \/ EnvExit
    \/ RebuildEnd
    \/ CmdReload
    \/ CmdRebuild
    \/ RebuildProject

Spec == Init /\ [][Next]_vars

(***************************************************************************)
(* What a build has done so far                                            *)
(***************************************************************************)
\* positions between the construction of the environment and the end of
\* Build.build, where issued, build and tmp_dir belong to one build
AcquirePcs == {"fetch_or_clone", "checkout", "pull", "submodules",
               "submodule_update"}
BuildPcs == {"enter", "enter_except", "do_build", "rm", "mv", "exit",
             "rebuild_end"} \cup AcquirePcs

\* Build.build has returned or raised
BuildEnded == hpc = "rebuild_end"

\* no fixed directory was supplied: the environment makes its own
Ephemeral(b) == Or(b.working_copy, b.project.working_copy) = None

TmpPaths == {TmpPath(k) : k \in 1..MaxTmp}

Last(s) == s[Len(s)]
AllReturned(entries) ==
    \A k \in 1..Len(entries) : entries[k].outcome = Returned
CallsOf(entries) == [k \in 1..Len(entries) |-> entries[k].call]
IsPrefix(s, t) == Len(s) <= Len(t) /\ s = SubSeq(t, 1, Len(s))

\* a step that issues a command
Issues == Len(issued') = Len(issued) + 1
IssuedNow == issued'[Len(issued')]

RECURSIVE SubmoduleCalls(_)
SubmoduleCalls(submodules) ==
    IF submodules = <<>> THEN <<>>
    ELSE <<GitSubmoduleInit(Head(submodules)),
           GitSubmoduleUpdate(Head(submodules))>>
             \o SubmoduleCalls(Tail(submodules))

\* the version-control operations of the claim, for a directory that held
\* (git) or did not hold version-control metadata
AcquireCalls(b, dir, git) ==
    <<IF git THEN GitFetch ELSE GitClone(b.project.repository_url, dir)>>
        \o <<GitCheckout(b.branch), GitPull>>
        \o SubmoduleCalls(b.submodules)
AcquireLen(b) == 3 + 2 * Len(b.submodules)

(***************************************************************************)
(* C6: when Build.build has returned or raised for a build without a       *)
(* fixed directory, the ephemeral directory that was created for it does   *)
(* not exist, whatever step failed or none; no temporary directory is      *)
(* left when no build is running.                                          *)
(***************************************************************************)
C6_EphemeralDirectoryGone ==
    /\ (BuildEnded /\ Ephemeral(build)) =>
          /\ tmp_dir \in TmpPaths
          /\ tmp_dir \notin fs
    /\ hpc \in {"idle", "for_builds", "rebuild"} => fs \cap TmpPaths = {}

\* an ephemeral build has raised because its last acquisition step, the
\* update of a submodule, failed
C6_Witness ==
    /\ BuildEnded
    /\ Ephemeral(build)
    /\ exc.kind = "CalledProcessError"
    /\ issued # <<>>
    /\ Last(issued).call = GitSubmoduleUpdate("sub2")

(***************************************************************************)
(* C7: a step issues rm -rf <dest> or mv <source> <dest>, or changes a     *)
(* destination, only in a BuildAndMove whose commands have all been        *)
(* issued and have all returned (as has every acquisition step), the       *)
(* removal first and the move right after it; so after a failure of a      *)
(* command or of the acquisition neither is issued and the destination is  *)
(* as it was.                                                              *)
(***************************************************************************)
IsMoveCall(words) == words[1] \in {"rm", "mv"}
DestinationChanges == \E d \in Destinations : (d \in fs) # (d \in fs')

C7_MoveOnlyAfterAllCommands ==
    [][((Issues /\ IsMoveCall(IssuedNow.call)) \/ DestinationChanges) =>
          /\ build.cls = "BuildAndMove"
          /\ Issues
          /\ LET n == AcquireLen(build)
                 m == Len(build.commands)
             IN  /\ Len(issued) >= n + m
                 /\ SubSeq(CallsOf(issued), n + 1, n + m) = build.commands
                 /\ AllReturned(issued)
                 /\ \/ /\ Len(issued) = n + m
                       /\ IssuedNow.call = RmRf(build.move_to)
                    \/ /\ Len(issued) = n + m + 1
                       /\ Last(issued).call = RmRf(build.move_to)
                       /\ IssuedNow.call =
                              Mv(MoveFrom(build, tmp_dir), build.move_to)
      ]_vars

\* a BuildAndMove has removed the destination and moved the build there
C7_Witness ==
    /\ hpc = "exit"
    /\ build.cls = "BuildAndMove"
    /\ Len(issued) >= 2
    /\ AllReturned(issued)
    /\ issued[Len(issued) - 1].call = RmRf(build.move_to)
    /\ Last(issued).call = Mv(tmp_dir, build.move_to)
    /\ build.move_to \in fs

(***************************************************************************)
(* C8: the commands of a build are issued in the configured order, after   *)
(* the acquisition steps, and a command is issued only when everything     *)
(* issued before it has returned (exit code 0): nothing follows a failure, *)
(* and a build that ends without an exception has run all its commands.    *)
(***************************************************************************)
C8_CommandsInOrderUntilFailure ==
    hpc \in BuildPcs =>
        LET n == AcquireLen(build)
            m == Len(build.commands)
        IN  /\ \A k \in 1..Len(issued) :
                  /\ k < Len(issued) => issued[k].outcome = Returned
                  /\ (k > n /\ k <= n + m) =>
                        issued[k].call = PyGet(build.commands, k - n - 1)
                  /\ k <= n => issued[k].call[1] = "git"
            /\ build.cls = "Build" => Len(issued) <= n + m
            /\ (BuildEnded /\ exc = NoOutcome) => Len(issued) >= n + m

\* the second of two commands has failed and the build is being left
C8_Witness ==
    /\ hpc = "exit"
    /\ Len(build.commands) = 2
    /\ Len(issued) = AcquireLen(build) + 2
    /\ Last(issued).call = MakeInstall
    /\ Last(issued).outcome.kind = "CalledProcessError"
    /\ issued[Len(issued) - 1].outcome = Returned

(***************************************************************************)
(* C9: the acquisition issues fetch origin when the directory holds        *)
(* version-control metadata and clone <url> <dir> otherwise, then checkout *)
(* <branch>, pull, and submodule init <path>, submodule update <path> for  *)
(* each submodule in list order; a step is issued only when all steps      *)
(* before it have returned, the body of the build starts only after the    *)
(* whole sequence, and the exception of a failed step is the one that      *)
(* leaves Build.build.                                                     *)
(***************************************************************************)
C9_AcquisitionSequence ==
    /\ [](hpc \in BuildPcs =>
            /\ hpc \in {"do_build", "rm", "mv", "exit"} =>
                  /\ Len(issued) >= AcquireLen(build)
                  /\ AllReturned(SubSeq(issued, 1, AcquireLen(build)))
            /\ (hpc \in {"enter_except", "rebuild_end"} /\ issued # <<>>
                    /\ Len(issued) <= AcquireLen(build)
                    /\ Last(issued).outcome # Returned) =>
                  exc = Last(issued).outcome)
    /\ [][(Issues /\ hpc \in AcquirePcs) =>
            /\ AllReturned(issued)
            /\ Len(issued) < AcquireLen(build)
            /\ IssuedNow.call =
                  AcquireCalls(build, tmp_dir, tmp_dir \in gitdirs)
                      [Len(issued) + 1]
            /\ IssuedNow.outcome # Returned => hpc' = "enter_except"
         ]_vars

\* a build with two submodules has been acquired by a clone
C9_Witness ==
    /\ hpc = "do_build"
    /\ Len(build.submodules) = 2
    /\ CallsOf(issued) = AcquireCalls(build, tmp_dir, FALSE)

(***************************************************************************)
(* C10: pubsubPublish calls rebuild for the builds registered under the    *)
(* key (repository, segment 2 of the ref), once each and in list order,    *)
(* and a rebuild starts only after the one before it has announced idle;   *)
(* for a pair that is not a key it calls no rebuild and returns.           *)
(***************************************************************************)
WellFormedNotification(h) ==
    /\ h.name = "pubsubPublish"
    /\ ~h.ref.is_none
    /\ InRange(SplitRef(h.ref.text), 2)
KeyOf(h) == <<h.repo, PyGet(SplitRef(h.ref.text), 2)>>
Registered(h) == IF KeyOf(h) \in Keys(repobranch_map)
                 THEN Get(repobranch_map, KeyOf(h))
                 ELSE <<>>
IdleMessage == Message(DocsSwitch, <<>>, Some(IdleSubject))

C10_DispatchExactlyRegistered ==
    WellFormedNotification(handler) =>
        /\ IsPrefix(rebuilds, Registered(handler))
        /\ hpc # "idle" =>
              /\ builds = Registered(handler)
              /\ Len(rebuilds) = IF hpc \in {"for_builds", "rebuild"}
                                 THEN build_i ELSE build_i + 1
        /\ (hpc \in {"for_builds", "rebuild"} /\ build_i > 0) =>
              /\ sent # <<>>
              /\ Last(sent) = IdleMessage
        /\ hpc = "idle" =>
              /\ ended = "returned"
              /\ rebuilds = Registered(handler)

\* a notification for a key that two projects share has been handled
C10_Witness ==
    /\ hpc = "idle"
    /\ WellFormedNotification(handler)
    /\ ended = "returned"
    /\ Len(rebuilds) = 3
    /\ rebuilds = Registered(handler)
    /\ \E j, k \in 1..Len(rebuilds) :
          rebuilds[j].project.name # rebuilds[k].project.name

(***************************************************************************)
(* C11: a notification whose repository field is missing, whose ref field  *)
(* is missing, or whose ref has fewer than three segments is logged and    *)
(* dropped: its handler returns (it does not raise) and calls no rebuild.  *)
(***************************************************************************)
MalformedNotification(h) ==
    /\ h.name = "pubsubPublish"
    /\ \/ h.repo = None
       \/ h.ref.is_none
       \/ ~InRange(SplitRef(h.ref.text), 2)

C11_MalformedDropped ==
    MalformedNotification(handler) =>
        /\ hpc = "idle"
        /\ ended = "returned"
        /\ rebuilds = <<>>
        /\ Malformed \in Range(printed)

(***************************************************************************)
(* C12: a rebuild that has announced its start announces idle exactly      *)
(* once, as its last announcement, however Build.build ended (a failed     *)
(* acquisition step, a failed command, a failed move, or success); while   *)
(* the build runs, idle has not been announced.                            *)
(***************************************************************************)
StartMessage(b) == Message(DocsSwitch, <<>>, Some(Topic(b)))
Count(s, x) == Cardinality({k \in 1..Len(s) : s[k] = x})
\* the latest rebuild (of Last(rebuilds)) has announced its start and is over
RebuildOver == hpc \in {"for_builds", "rebuild", "idle"} /\ sent # <<>>

C12_IdleExactlyOnceLast ==
    /\ hpc \in BuildPcs =>
          /\ sent # <<>>
          /\ sent[1] = StartMessage(Last(rebuilds))
          /\ Count(sent, IdleMessage) = 0
    /\ RebuildOver =>
          /\ sent[1] = StartMessage(Last(rebuilds))
          /\ Last(sent) = IdleMessage
          /\ Count(sent, IdleMessage) = 1

\* a rebuild whose move failed has ended
C12_Witness ==
    /\ RebuildOver
    /\ issued # <<>>
    /\ Last(issued).call[1] = "mv"
    /\ Last(issued).outcome # Returned
    /\ Last(sent) = IdleMessage

(***************************************************************************)
(* C13: rebuild returns to its caller whatever Build.build raised; after   *)
(* a failure it has announced the summary naming the project and the build *)
(* on the operator channel, then the text of the exception on the log      *)
(* channel, and has not announced "done."; after a success it has          *)
(* announced "done." exactly once and no failure summary.                  *)
(***************************************************************************)
\* the build of the latest rebuild failed: a step of it did not return, or
\* the directory could not be made, or the release raised
BrokenMessage(b) == Message(BotsSwitch, BrokenText(b), NoneText)
DoneMessage == Message(DocsSwitch, DoneText, NoneText)
Failures(entries) == {k \in 1..Len(entries) : entries[k].outcome # Returned}

\* the text of an exception, as the log channel shows it
Detail(e) == <<e.kind>> \o e.cmd

\* what has been announced when Build.build has ended, and after rebuild
AnnouncedAsEnded ==
    /\ hpc = "rebuild_end" =>
          /\ Count(sent, DoneMessage) = 0
          /\ Count(sent, BrokenMessage(build)) = 0
          /\ (Failures(issued) # {} => exc # NoOutcome)
    /\ RebuildOver =>
          /\ ended \in {"running", "returned"}
          /\ Count(sent, DoneMessage)
                 + Count(sent, BrokenMessage(Last(rebuilds))) = 1
          /\ (Failures(issued) # {} => Count(sent, DoneMessage) = 0)

C13_FailureContained ==
    /\ []AnnouncedAsEnded
    /\ [][hpc = "rebuild_end" =>
             /\ hpc' = "for_builds"
             /\ sent' = IF exc # NoOutcome
                        THEN sent \o <<BrokenMessage(build),
                                       Message(DocsSwitch, Detail(exc),
                                               NoneText),
                                       IdleMessage>>
                        ELSE sent \o <<DoneMessage, IdleMessage>>]_vars

\* a rebuild whose second command failed has ended
C13_Witness ==
    /\ RebuildOver
    /\ Len(Last(rebuilds).commands) = 2
    /\ issued # <<>>
    /\ Last(issued).call = MakeInstall
    /\ Last(issued).outcome.kind = "CalledProcessError"
    /\ Count(sent, BrokenMessage(Last(rebuilds))) = 1

(***************************************************************************)
(* C14: a reload that fails leaves the authorized set, the blacklist, the  *)
(* project table and the dispatch table as they were and replies the       *)
(* error to the requester; a reload that succeeds (it replies True)        *)
(* replaces them by the tables of the document, with an empty blacklist.   *)
(***************************************************************************)
\* the step is the handling of the command "reload"
IsReload ==
    /\ nevents' = nevents + 1
    /\ handler'.name = "message"
    /\ handler'.repo = "reload"

C14_FailedReloadKeepsState ==
    [][IsReload =>
          IF replied' = <<ReprTrue>>
          THEN /\ Tables' = Loaded(config_file')
               /\ blacklist' = {}
          ELSE /\ Tables' = Tables
               /\ replied' # <<>>
               /\ replied'[1] # Detail(NoOutcome)]_vars

(***************************************************************************)
(* C15: after a configuration load that succeeded, the keys of the         *)
(* dispatch table are the pairs (notification source, branch) of the       *)
(* builds of the projects that have a notification source, each key once,  *)
(* and the list of a key holds the builds on that branch of the projects   *)
(* with that source, in the order the document declares the projects and   *)
(* each project declares its builds; builds of a project without a         *)
(* notification source are in no list.                                     *)
(***************************************************************************)
\* the document binds projects to pairs (name, Project): loading it succeeds
WellFormedDoc(conf) ==
    \A k \in 1..Len(conf.projects) :
        /\ Len(conf.projects[k]) = 2
        /\ conf.projects[k][2].cls = "Project"

Declared(conf) == [k \in 1..Len(conf.projects) |-> conf.projects[k][2]]

\* the builds of project p for the key, in the order p declares them
OnBranch(p, key) ==
    IF p.pubsub_name = key[1]
    THEN SelectSeq(p.builds, LAMBDA b : b.branch = key[2])
    ELSE <<>>

RECURSIVE BuildsUnder(_, _)
BuildsUnder(projs, key) ==
    IF projs = <<>> THEN <<>>
    ELSE OnBranch(Head(projs), key) \o BuildsUnder(Tail(projs), key)

SourceKeys(projs) ==
    UNION {{<<projs[k].pubsub_name, projs[k].builds[j].branch>> :
               j \in 1..Len(projs[k].builds)} :
           k \in {n \in 1..Len(projs) : projs[n].pubsub_name # None}}

AllBuilds(map) == UNION {Range(map[k][2]) : k \in 1..Len(map)}

C15_DispatchIsUnion ==
    WellFormedDoc(config_file) =>
        /\ Keys(repobranch_map) = SourceKeys(Declared(config_file))
        /\ Len(repobranch_map) = Cardinality(Keys(repobranch_map))
        /\ \A key \in Keys(repobranch_map) :
              Get(repobranch_map, key)
                  = BuildsUnder(Declared(config_file), key)
        /\ \A k \in 1..Len(config_file.projects) :
              Declared(config_file)[k].pubsub_name = None =>
                  Range(Declared(config_file)[k].builds)
                      \cap AllBuilds(repobranch_map) = {}

\* a reload has replaced the tables by those of a document in which two
\* projects share a key
C15_Witness ==
    /\ hpc = "idle"
    /\ handler.name = "message"
    /\ handler.repo = "reload"
    /\ replied = <<ReprTrue>>
    /\ WellFormedDoc(config_file)
    /\ <<"repoA", BranchMaster>> \in Keys(repobranch_map)
    /\ LET shared == Get(repobranch_map, <<"repoA", BranchMaster>>)
       IN  /\ Len(shared) = 3
           /\ shared[1].project.name = "beta"
           /\ shared[2].project.name = "alpha"

(***************************************************************************)
(* C16: after the command rebuild <projectName>, when the name is that of  *)
(* a configured project, rebuild has been called for the builds of the     *)
(* project, once each in the order the project declares them, and the last *)
(* of them has announced its start and idle; when the name is unknown, the *)
(* reply is Unknown project: <projectName>, and there is no rebuild and    *)
(* no announcement.                                                        *)
(***************************************************************************)
IsRebuildCommand(h) == h.name = "message" /\ h.repo = "rebuild"
\* the project name the requester typed
NameTyped(h) ==
    IF IsLiteral(h.ref.text) THEN Eval(h.ref.text) ELSE h.ref.text[1]

C16_RebuildCommand ==
    (hpc = "idle" /\ IsRebuildCommand(handler)) =>
        IF NameTyped(handler) \in Keys(projects)
        THEN /\ rebuilds = Get(projects, NameTyped(handler)).builds
             /\ rebuilds # <<>> =>
                   /\ sent # <<>>
                   /\ sent[1] = StartMessage(Last(rebuilds))
                   /\ Last(sent) = IdleMessage
        ELSE /\ replied = <<UnknownProject(NameTyped(handler))>>
             /\ rebuilds = <<>>
             /\ sent = <<>>

(***************************************************************************)
(* C17: a sink call made for a complete line carries exactly one line of   *)
(* the channel it was read from (bytes of that channel, one newline, at    *)
(* the end, and a line that the channel has produced), and a flush at      *)
(* end-of-stream of a channel carries bytes of that channel only: nothing  *)
(* read from one channel goes through the buffer of the other.             *)
(***************************************************************************)
BytesOf(data) == {data[k] : k \in 1..Len(data)}
Newlines(data) == Cardinality({k \in 1..Len(data) : data[k] = NL})

C17_SinkCallIsOneLineOfOneChannel ==
    \A k \in 1..Len(sunk) :
        /\ sunk[k].kind = "line" =>
              /\ BytesOf(sunk[k].data) \subseteq {DataByte(sunk[k].fd), NL}
              /\ Newlines(sunk[k].data) = 1
              /\ Last(sunk[k].data) = NL
              /\ sunk[k].data \in Range(CompleteLines(Produced(sunk[k].fd)))
        /\ sunk[k].kind = "force" =>
              BytesOf(sunk[k].data) \subseteq {DataByte(sunk[k].fd), NL}

(***************************************************************************)
(* C18: whenever a handler looks at the tables, the authorized set, the    *)
(* project table and the dispatch table are together those of one          *)
(* document that loaded (the old one or the new one, never an empty or     *)
(* partly filled dispatch table, never tables of two documents), and a     *)
(* handler that is running keeps the list of builds it took from the       *)
(* dispatch table and the build it is rebuilding.                          *)
(***************************************************************************)
SnapshotOf(doc) ==
    /\ authorized = Loaded(doc).authorized
    /\ projects = Loaded(doc).projects
    /\ repobranch_map = Loaded(doc).repobranch_map

CompleteSnapshot ==
    \E doc \in {d \in ConfigDocs : WellFormedDoc(d)} : SnapshotOf(doc)

C18_SnapshotOldOrNew ==
    /\ []CompleteSnapshot
    /\ [][(hpc # "idle" /\ hpc' # "idle") =>
             /\ builds' = builds
             /\ (hpc \in BuildPcs /\ hpc' \in BuildPcs) => build' = build]_vars

(***************************************************************************)
(* C19: with a sink, the first sink call of an invocation is the line      *)
(* "$ " followed by the argument vector joined by spaces, no other sink    *)
(* call of the invocation is that echo, and no sink call is made once      *)
(* Popen.checked has returned or raised: all output of a command that is   *)
(* delivered is delivered between its echo and the start of the next       *)
(* command.                                                                *)
(***************************************************************************)
EchoFirstAndOnce ==
    sink_line_call =>
        /\ sunk # <<>>
        /\ sunk[1] = SinkEntry("echo", None, <<"$", Space>> \o Join(call))
        /\ \A k \in 2..Len(sunk) : sunk[k].kind # "echo"

C19_EchoOnceBeforeOutput ==
    /\ []EchoFirstAndOnce
    /\ [][CheckedEnded => sunk' = sunk]_vars

\* a command with a sink has echoed its command line, delivered a line of
\* each channel and returned
C19_Witness ==
    /\ CheckedEnded
    /\ sink_line_call
    /\ outcome = Returned
    /\ Len(sunk) >= 3
    /\ \E j, k \in 2..Len(sunk) :
          /\ sunk[j].kind = "line" /\ sunk[j].fd = STDOUT
          /\ sunk[k].kind = "line" /\ sunk[k].fd = STDERR

(***************************************************************************)
(* C20: for a build with a fixed directory (its own working_copy, or else  *)
(* that of its project), no temporary directory is created, and no step of *)
(* the environment (the making of the directory, an acquisition step that  *)
(* returns or fails, the except clause of __enter__, __exit__ after the    *)
(* body returned or raised) removes the fixed directory.                   *)
(***************************************************************************)
FixedDir(b) == Or(b.working_copy, b.project.working_copy)
EnvPcs == {"enter", "enter_except", "exit"} \cup AcquirePcs

NoEphemeralForFixed ==
    (hpc \in BuildPcs /\ ~Ephemeral(build)) =>
        /\ tmp_dir = FixedDir(build)
        /\ tmp_dir_context = None
        /\ TmpPaths \cap fs = {}

C20_FixedDirectoryKept ==
    /\ []NoEphemeralForFixed
    /\ [][(hpc \in EnvPcs /\ ~Ephemeral(build)) =>
             /\ FixedDir(build) \in fs => FixedDir(build) \in fs'
             /\ TmpPaths \cap fs' = {}]_vars

\* a build in the fixed directory of its project has ended after its
\* checkout failed, and the directory is there
C20_Witness ==
    /\ hpc = "rebuild_end"
    /\ ~Ephemeral(build)
    /\ build.working_copy = None
    /\ issued # <<>>
    /\ Last(issued).call[2] = "checkout"
    /\ Last(issued).outcome # Returned
    /\ FixedDir(build) \in fs

====
